---- MODULE Spec2Model ----
(***************************************************************************)
(* Quiz generation, reuse/caching and submission scoring of the backend   *)
(* (services/aiService.ts, services/redisService.ts, routes/quiz.ts).      *)
(*                                                                         *)
(* Strings that take part in key derivation are sequences of one-character *)
(* strings, so that toLowerCase / trim / replace are computed, not assumed.*)
(* Time is counted in half hours.                                          *)
(***************************************************************************)
EXTENDS Integers, Sequences, FiniteSets, TLC

VARIABLES
    clock,          \* Date.now(), in half hours
    quizzes,        \* table quizzes with its questions (sequence, id = position)
    submissions,    \* table quiz_submissions (set of rows)
    userAnswers,    \* table user_answers (sequence of rows)
    nextSubId,      \* serial of quiz_submissions.id
    cache,          \* Redis: set of entries [key, value, expiresAt]
    pc,             \* per worker: position inside the handler it runs
    req,            \* per worker: the request being (or last) handled
    loc,            \* per worker: the handler's local variables
    res,            \* per worker: the HTTP response of the last finished request
    served,         \* history: last quiz returned per (topic, model) without forceNew
    rawText,        \* parser harness: the raw provider text
    parseOut        \* parser harness: outcome of parseAIResponse(rawText)

vars == <<clock, quizzes, submissions, userAnswers, nextSubId, cache,
          pc, req, loc, res, served, rawText, parseOut>>

----------------------------------------------------------------------------
(* Bounds of the model *)

MaxClock == 49
MaxQuizzes == 2
MaxSubmissions == 1
MaxBlocks == 6

(* Program constants, in half hours *)
ReuseWindow == 48
QuizLifetime == 48
CacheTTL == 2

\* the instants at which something is observed: within the cache TTL of the
\* start, and from just before the end of the reuse window on
Instants == {t \in 0..MaxClock : t < CacheTTL \/ t >= ReuseWindow - 1}

----------------------------------------------------------------------------
(* String primitives of JavaScript used by the key derivations *)

IsWhitespace(c) == c = " "

LowerChar(c) ==
    CASE c = "A" -> "a"
      [] c = "B" -> "b"
      [] OTHER -> c

toLowerCase(s) == [i \in 1..Len(s) |-> LowerChar(s[i])]

RECURSIVE trimStart(_)
trimStart(s) ==
    IF s # <<>> /\ IsWhitespace(Head(s)) THEN trimStart(Tail(s)) ELSE s

RECURSIVE trimEnd(_)
trimEnd(s) ==
    IF s # <<>> /\ IsWhitespace(s[Len(s)])
    THEN trimEnd(SubSeq(s, 1, Len(s) - 1))
    ELSE s

trim(s) == trimEnd(trimStart(s))

\* s.replace(/\s+/g, '_'): every maximal run of whitespace becomes one '_'
RECURSIVE replaceWhitespace(_)
replaceWhitespace(s) ==
    IF s = <<>> THEN <<>>
    ELSE IF IsWhitespace(Head(s))
         THEN <<"_">> \o replaceWhitespace(trimStart(s))
         ELSE <<Head(s)>> \o replaceWhitespace(Tail(s))

startsWith(s, prefix) ==
    Len(s) >= Len(prefix) /\ SubSeq(s, 1, Len(prefix)) = prefix

QuizPrefix == <<"q", "u", "i", "z", ":">>

\* `quiz:${topic.toLowerCase().trim()}:${model}`
cacheKeyOf(topic, model) ==
    QuizPrefix \o trim(toLowerCase(topic)) \o <<":">> \o model

\* RedisService.setQuizCache / getQuizCache: the key that reaches Redis
redisQuizKey(topic) ==
    QuizPrefix \o replaceWhitespace(toLowerCase(topic))

----------------------------------------------------------------------------
(* parseAIResponse.  The raw text is a sequence of tokens: the marker      *)
(* "Qn:" (k = "Q") and lines.  A line is a question/free text line ("txt"),*)
(* an option line "X) v" ("opt", v = "" when nothing follows the prefix),  *)
(* a "Correct: v" line ("cor"), an "Explanation: v" line ("exp") or a      *)
(* whitespace-only line ("blank"); ind says the line starts with           *)
(* whitespace.  Consecutive lines are separated by '\n'; a marker joins    *)
(* the line before it and the line after it.                               *)

Labels == {"A", "B", "C", "D"}

Line(k, l, v, ind) == [k |-> k, l |-> l, v |-> v, ind |-> ind]
Marker == Line("Q", "", "", FALSE)
Txt(v) == Line("txt", "", v, FALSE)
Opt(l, v) == Line("opt", l, v, FALSE)
Cor(v) == Line("cor", "", v, FALSE)
Exp(v) == Line("exp", "", v, FALSE)
Blank == Line("blank", "", "", TRUE)
Indented(line) == [line EXCEPT !.ind = TRUE]

\* response.split(/Q\d+:/)
RECURSIVE splitOnMarker(_, _)
splitOnMarker(tokens, current) ==
    IF tokens = <<>> THEN <<current>>
    ELSE IF Head(tokens).k = "Q"
         THEN <<current>> \o splitOnMarker(Tail(tokens), <<>>)
         ELSE splitOnMarker(Tail(tokens), Append(current, Head(tokens)))

IsNonBlank(line) == line.k # "blank"

\* block.trim().split('\n').filter(line => line.trim())
blockLines(block) ==
    LET nonBlank == SelectSeq(block, IsNonBlank)
    IN  IF nonBlank = <<>> THEN <<>>
        ELSE <<[nonBlank[1] EXCEPT !.ind = FALSE]>> \o Tail(nonBlank)

\* lines[0].trim()
lineText(line) == <<line.k, line.l, line.v>>

EmptyScan ==
    [A |-> "", B |-> "", C |-> "", D |-> "",
     correctAnswer |-> "null", explanation |-> ""]

\* the for-loop over the lines of one block
RECURSIVE scanLines(_, _)
scanLines(lines, acc) ==
    IF lines = <<>> THEN acc
    ELSE LET line == Head(lines)
             next ==
                 IF line.ind THEN acc
                 ELSE IF line.k = "opt" THEN [acc EXCEPT ![line.l] = line.v]
                 ELSE IF line.k = "cor"
                      THEN IF line.v \in Labels
                           THEN [acc EXCEPT !.correctAnswer = line.v]
                           ELSE acc
                 ELSE IF line.k = "exp" THEN [acc EXCEPT !.explanation = line.v]
                 ELSE acc
         IN  scanLines(Tail(lines), next)

MinBlockLines == 6
MaxQuestions == 5

\* one block: <<question>> or <<>> when the block is skipped
parseBlock(block) ==
    LET lines == blockLines(block)
        s == scanLines(lines, EmptyScan)
    IN  IF Len(lines) < MinBlockLines THEN <<>>
        ELSE IF s.A # "" /\ s.B # "" /\ s.C # "" /\ s.D # "" /\ s.correctAnswer # "null"
             THEN <<[question |-> lineText(lines[1]),
                     options |-> [A |-> s.A, B |-> s.B, C |-> s.C, D |-> s.D],
                     correctAnswer |-> s.correctAnswer,
                     explanation |-> s.explanation]>>
             ELSE <<>>

RECURSIVE parseBlocks(_)
parseBlocks(blocks) ==
    IF blocks = <<>> THEN <<>>
    ELSE parseBlock(Head(blocks)) \o parseBlocks(Tail(blocks))

Min(a, b) == IF a < b THEN a ELSE b

\* mutant: the result is returned without the slice(0, 5)
parseAIResponseUncapped(response) ==
    LET questions == parseBlocks(splitOnMarker(response, <<>>))
    IN  IF Len(questions) = 0
        THEN [threw |-> TRUE, value |-> <<>>]
        ELSE [threw |-> FALSE, value |-> questions]

\* parseAIResponse; threw: it ended in its throw, value: what it returned
parseAIResponse(response) ==
    LET questions == parseBlocks(splitOnMarker(response, <<>>))
    IN  IF Len(questions) = 0
        THEN [threw |-> TRUE, value |-> <<>>]
        ELSE [threw |-> FALSE,
              value |-> SubSeq(questions, 1, Min(Len(questions), MaxQuestions))]

----------------------------------------------------------------------------
(* Provider texts used by the generation path *)

GoodBlock(name, correct) ==
    <<Marker, Txt(name), Opt("A", "a"), Opt("B", "b"), Opt("C", "c"),
      Opt("D", "d"), Cor(correct), Exp("because")>>

\* a block whose D option is missing
BrokenBlock(name) ==
    <<Marker, Txt(name), Opt("A", "a"), Opt("B", "b"), Opt("C", "c"),
      Cor("A"), Exp("because")>>

TextFive ==
    GoodBlock("q1", "A") \o GoodBlock("q2", "A") \o GoodBlock("q3", "C")
        \o GoodBlock("q4", "D") \o GoodBlock("q5", "B")

TextThree ==
    GoodBlock("q1", "B") \o BrokenBlock("q2") \o GoodBlock("q3", "C")
        \o BrokenBlock("q4") \o GoodBlock("q5", "A")

TextJunk == <<Txt("I cannot help with that.")>>

ProviderTexts == {TextFive, TextThree, TextJunk}

\* what the provider call can end in: missing API key, a thrown transport
\* error, an empty completion, or a text
ProviderOutcomes ==
    {[kind |-> "nokey", text |-> <<>>],
     [kind |-> "throw", text |-> <<>>],
     [kind |-> "empty", text |-> <<>>]}
    \cup {[kind |-> "text", text |-> t] : t \in ProviderTexts}

----------------------------------------------------------------------------
(* Requests, rows and views *)

Workers == {"w1", "w2"}
Users == {1, 2}

GPT35 == <<"g", "p", "t", "-", "3", ".", "5", "-", "t", "u", "r", "b", "o">>
UnknownModel == <<"x">>
\* a model value that is not a string (e.g. the number 123)
NotAString == <<"#number">>

\* process.env.AVAILABLE_MODELS?.split(',') || ['gpt-3.5-turbo']
availableModels == {GPT35}

\* getProviderFromModel
getProviderFromModel(model) ==
    IF startsWith(model, <<"g", "p", "t", "-">>) THEN "openai"
    ELSE IF startsWith(model, <<"c", "l", "a", "u", "d", "e", "-">>) THEN "anthropic"
    ELSE "openai"

TopicSpace == <<"a", " ", "b">>
TopicUnderscore == <<"a", "_", "b">>
TopicBlank == <<" ">>

Null == [null |-> TRUE]
Date(n) == [date |-> n]

\* JSON.stringify of a quiz view: Date values become ISO strings
JSONstringifyQuiz(quiz) ==
    [json |-> [quiz EXCEPT !.createdAt = [iso |-> @.date],
                           !.expiresAt = [iso |-> @.date]]]

\* JSON.stringify of a string: the quoted string
JSONstringifyString(str) == [json |-> str]

JSONparse(str) == str.json

\* parseInt of a decimal id string
parseInt(str) ==
    IF \E n \in 0..9 : ToString(n) = str
    THEN CHOOSE n \in 0..9 : ToString(n) = str
    ELSE -1

\* number of rows of table questions (its serial id)
RECURSIVE questionCount(_)
questionCount(n) ==
    IF n = 0 THEN 0 ELSE questionCount(n - 1) + Len(quizzes[n].questions)

\* the question rows of prisma.quiz.create's nested create
questionRows(quizId, questions) ==
    [i \in 1..Len(questions) |->
        [id |-> questionCount(Len(quizzes)) + i,
         quizId |-> quizId,
         questionText |-> questions[i].question,
         options |-> questions[i].options,
         correctAnswer |-> questions[i].correctAnswer,
         explanation |-> questions[i].explanation,
         questionOrder |-> i]]

\* the row written by createQuizInDatabase
newQuizRow(topic, model, questions, userId, now) ==
    [id |-> Len(quizzes) + 1,
     topic |-> topic,
     model |-> model,
     userId |-> userId,
     createdAt |-> now,
     expiresAt |-> now + QuizLifetime,
     isAiGenerated |-> TRUE,
     cacheKey |-> cacheKeyOf(topic, model),
     questions |-> questionRows(Len(quizzes) + 1, questions)]

\* mutant: the quizzes table without its unique index on cache_key
withoutUniqueCacheKey(row) == FALSE

\* unique index quizzes_cache_key_key
violatesUniqueCacheKey(row) ==
    \E i \in 1..Len(quizzes) : quizzes[i].cacheKey = row.cacheKey

\* include: { questions: true } has no orderBy: the order of the rows is the
\* order of the scan, here a scan that starts k rows after the first and wraps
scannedFrom(questions, k) ==
    [i \in 1..Len(questions) |-> questions[((i - 1 + k) % Len(questions)) + 1]]

includedQuestions(row, k) == [row EXCEPT !.questions = scannedFrom(@, k)]

\* the scans considered: in insertion order, or starting at the second row
ScanStarts == {0, 1}

\* mutant: the view keeps the correct answer of every question
createdFrontendQuizWithAnswers(row) ==
    [id |-> ToString(row.id),
     topic |-> row.topic,
     model |-> row.model,
     questions |-> [i \in 1..Len(row.questions) |->
                       [id |-> ToString(row.questions[i].id),
                        question |-> row.questions[i].questionText,
                        options |-> row.questions[i].options,
                        correctAnswer |-> row.questions[i].correctAnswer]],
     createdAt |-> Date(row.createdAt),
     expiresAt |-> Date(row.expiresAt)]

\* createQuizInDatabase: "Convert to frontend format"
createdFrontendQuiz(row) ==
    [id |-> ToString(row.id),
     topic |-> row.topic,
     model |-> row.model,
     questions |-> [i \in 1..Len(row.questions) |->
                       [id |-> ToString(row.questions[i].id),
                        question |-> row.questions[i].questionText,
                        options |-> row.questions[i].options]],
     createdAt |-> Date(row.createdAt),
     expiresAt |-> Date(row.expiresAt)]

\* generateQuiz, store-reuse path: "Convert to frontend format"
reusedFrontendQuiz(row) ==
    [id |-> ToString(row.id),
     topic |-> row.topic,
     model |-> row.model,
     questions |-> [i \in 1..Len(row.questions) |->
                       [id |-> ToString(row.questions[i].id),
                        question |-> row.questions[i].questionText,
                        options |-> row.questions[i].options]],
     createdAt |-> Date(row.createdAt),
     expiresAt |-> Date(row.expiresAt)]

\* POST /generate: the quiz of the response body
routeFrontendQuiz(quiz) ==
    [id |-> quiz.id,
     topic |-> quiz.topic,
     model |-> quiz.model,
     createdAt |-> quiz.createdAt,
     expiresAt |-> quiz.expiresAt,
     questions |-> [i \in 1..Len(quiz.questions) |->
                       [id |-> quiz.questions[i].id,
                        question |-> quiz.questions[i].question,
                        options |-> quiz.questions[i].options]]]

\* GET /:id: the quiz of the response body
reviewQuiz(row) ==
    [id |-> ToString(row.id),
     topic |-> row.topic,
     model |-> row.model,
     createdAt |-> Date(row.createdAt),
     expiresAt |-> Date(row.expiresAt),
     questions |-> [i \in 1..Len(row.questions) |->
                       [id |-> ToString(row.questions[i].id),
                        question |-> row.questions[i].questionText,
                        options |-> row.questions[i].options]]]

\* prisma.quiz.findUnique({ where: { id } })
findUniqueQuiz(id) ==
    IF id \in 1..Len(quizzes) THEN quizzes[id] ELSE Null

\* prisma.quiz.findMany({ where: { topic: topic.trim(), model } })
matchingQuizzes(topic, model) ==
    {i \in 1..Len(quizzes) :
        quizzes[i].topic = trim(topic) /\ quizzes[i].model = model}

\* orderBy createdAt desc: the candidates for existingQuizzes[0]
mostRecentOf(ids) ==
    {i \in ids : \A j \in ids : quizzes[j].createdAt <= quizzes[i].createdAt}

\* mutant: the read leaves the whitespace of the key as it is
getQuizCacheKeepingWhitespace(key) ==
    LET k == QuizPrefix \o toLowerCase(key)
    IN  IF \E e \in cache : e.key = k
        THEN JSONparse((CHOOSE e \in cache : e.key = k).value)
        ELSE Null

\* RedisService.get through getQuizCache
getQuizCache(key) ==
    LET k == redisQuizKey(key)
    IN  IF \E e \in cache : e.key = k
        THEN JSONparse((CHOOSE e \in cache : e.key = k).value)
        ELSE Null

\* RedisService.set (setEx) through setQuizCache: the cache afterwards
setQuizCache(key, quizData, ttl) ==
    LET k == redisQuizKey(key)
    IN  {e \in cache : e.key # k}
        \cup {[key |-> k, value |-> JSONstringifyString(quizData),
               expiresAt |-> clock + ttl]}

\* the Authorization header: none, or a bearer token
NoToken == [kind |-> "none", userId |-> 0]

\* the token whose verification sets req.user to the user userId
tokenOf(userId) ==
    IF userId = 0 THEN NoToken ELSE [kind |-> "valid", userId |-> userId]

NoReq ==
    [op |-> "none", topic |-> <<>>, model |-> <<>>, forceNew |-> FALSE,
     userId |-> 0, quizId |-> "", answers |-> <<>>, isArray |-> FALSE, at |-> 0,
     token |-> NoToken]

NoPrior == [topic |-> <<>>, model |-> <<>>, id |-> "", at |-> 0]

NoLoc ==
    [topic |-> <<>>, cacheKey |-> <<>>, questions |-> <<>>, quiz |-> Null,
     path |-> "", prior |-> NoPrior, preLen |-> 0,
     cacheReadFailed |-> FALSE, cacheWriteFailed |-> FALSE,
     storedQuiz |-> Null, results |-> <<>>, score |-> 0, totalQuestions |-> 0,
     percentage |-> 0, subId |-> 0, answersFailed |-> FALSE,
     cleanupFailed |-> FALSE, preNextSubId |-> 0, preAnswers |-> 0, now |-> 0,
     createOutcome |-> "", providerOutcome |-> "", storeRead |-> FALSE,
     providerCalls |-> 0]

NoRes == [status |-> 0, error |-> "", quiz |-> Null, result |-> Null]

priorOf(topic, model) ==
    IF \E e \in served : e.topic = topic /\ e.model = model
    THEN CHOOSE e \in served : e.topic = topic /\ e.model = model
    ELSE NoPrior

----------------------------------------------------------------------------
(* Initial state: empty store, empty cache, idle workers *)

Init ==
    /\ clock = 0
    /\ quizzes = <<>>
    /\ submissions = {}
    /\ userAnswers = <<>>
    /\ nextSubId = 1
    /\ cache = {}
    /\ pc = [p \in Workers |-> "idle"]
    /\ req = [p \in Workers |-> NoReq]
    /\ loc = [p \in Workers |-> NoLoc]
    /\ res = [p \in Workers |-> NoRes]
    /\ served = {}
    /\ rawText = <<>>
    /\ parseOut = Null

storeVars == <<quizzes, submissions, userAnswers, nextSubId>>
harnessVars == <<rawText, parseOut>>

\* the handler of worker p answers and ends
Respond(p, response) ==
    /\ pc' = [pc EXCEPT ![p] = "done"]
    /\ res' = [res EXCEPT ![p] = response]

\* the response has been sent; the worker takes the next request
Return(p) ==
    /\ pc[p] = "done"
    /\ pc' = [pc EXCEPT ![p] = "idle"]
    /\ req' = [req EXCEPT ![p] = NoReq]
    /\ loc' = [loc EXCEPT ![p] = NoLoc]
    /\ res' = [res EXCEPT ![p] = NoRes]
    /\ UNCHANGED <<clock, storeVars, cache, harnessVars>>

\* generateQuiz throws; the route answers 500 with the error's message
GenerateFails(p, message) ==
    Respond(p, [NoRes EXCEPT !.status = 500, !.error = message])

\* generateQuiz returns quiz; the route answers 200
GenerateReturns(p, quiz) ==
    Respond(p, [NoRes EXCEPT !.status = 200, !.quiz = routeFrontendQuiz(quiz)])

\* time passes; Redis drops the entries whose TTL has run out
Tick ==
    /\ \E t \in Instants :
          /\ t > clock
          /\ clock' = t
          /\ cache' = {e \in cache : e.expiresAt > t}
    /\ UNCHANGED <<storeVars, pc, req, loc, res, harnessVars>>

\* mutant: the lookup is made whatever forceNew is
checksCacheAndStoreAlways(forceNew) == TRUE

\* generateQuiz: if (!forceNew) { cache and store lookup }
checksCacheAndStore(forceNew) == ~forceNew

TopicInputs == {TopicSpace, TopicUnderscore, TopicBlank}
ModelInputs == {GPT35, UnknownModel, NotAString}

\* POST /generate up to the first await of generateQuiz
StartGenerateWith(p, topics, models, forces, users) ==
    /\ pc[p] = "idle"
    /\ \E topic \in topics, model \in models,
          forceNew \in forces, userId \in users :
          LET r == [NoReq EXCEPT !.op = "generate", !.topic = topic,
                                 !.model = model, !.forceNew = forceNew,
                                 !.userId = userId, !.at = clock,
                                 !.token = tokenOf(userId)]
              l == [NoLoc EXCEPT !.topic = trim(topic),
                                 !.cacheKey = cacheKeyOf(trim(topic), model),
                                 !.prior = priorOf(trim(topic), model),
                                 !.preLen = Len(quizzes)]
          IN  /\ req' = [req EXCEPT ![p] = r]
              /\ IF topic = <<>> \/ Len(trim(topic)) = 0
                 THEN /\ Respond(p, [NoRes EXCEPT !.status = 400,
                            !.error = "Topic is required and must be a non-empty string"])
                      /\ loc' = [loc EXCEPT ![p] = NoLoc]
                 ELSE IF model = <<>> \/ model = NotAString
                 THEN /\ Respond(p, [NoRes EXCEPT !.status = 400,
                            !.error = "Model must be a valid string"])
                      /\ loc' = [loc EXCEPT ![p] = NoLoc]
                 ELSE /\ loc' = [loc EXCEPT ![p] = l]
                      /\ IF checksCacheAndStore(forceNew)
                         THEN /\ pc' = [pc EXCEPT ![p] = "gen_cache_get"]
                              /\ res' = [res EXCEPT ![p] = NoRes]
                                 ELSE IF model \notin availableModels
                         THEN GenerateFails(p, "Failed to generate quiz: Invalid model")
                         ELSE /\ pc' = [pc EXCEPT ![p] = "gen_provider"]
                              /\ res' = [res EXCEPT ![p] = NoRes]
    /\ UNCHANGED <<clock, storeVars, cache, harnessVars>>

\* generateQuiz: await redisService.getQuizCache(cacheKey)
GenCacheGet(p) ==
    /\ pc[p] = "gen_cache_get"
    /\ \E redisUp \in BOOLEAN :
          LET cachedQuiz == IF redisUp THEN getQuizCache(loc[p].cacheKey) ELSE Null
          IN  IF cachedQuiz # Null
              THEN /\ loc' = [loc EXCEPT ![p].quiz = JSONparse(cachedQuiz),
                                         ![p].path = "cache"]
                   /\ GenerateReturns(p, JSONparse(cachedQuiz))
              ELSE /\ loc' = [loc EXCEPT ![p].cacheReadFailed = ~redisUp]
                   /\ pc' = [pc EXCEPT ![p] = "gen_find"]
                   /\ UNCHANGED res
    /\ UNCHANGED <<clock, storeVars, cache, req, harnessVars>>

\* mutant: a quiz created exactly 24 hours ago still counts as recent
isRecentInclusive(createdAt, now) == createdAt >= now - ReuseWindow

\* generateQuiz: mostRecentQuiz.createdAt > oneDayAgo
isRecent(createdAt, now) == createdAt > now - ReuseWindow

\* generateQuiz: await prisma.quiz.findMany(...) and the reuse decision,
\* then (no reuse) the model validation, up to the provider call
GenFindManyWith(p, scans) ==
    /\ pc[p] = "gen_find"
    /\ \E storeUp \in BOOLEAN, k \in scans :
          IF ~storeUp
          THEN /\ GenerateFails(p, "Failed to generate quiz: database error")
               /\ UNCHANGED loc
          ELSE LET existing == matchingQuizzes(loc[p].topic, req[p].model)
               IN  IF existing = {}
                   THEN /\ loc' = [loc EXCEPT ![p].storeRead = TRUE,
                                              ![p].now = clock]
                        /\ IF req[p].model \notin availableModels
                           THEN GenerateFails(p, "Failed to generate quiz: Invalid model")
                           ELSE /\ pc' = [pc EXCEPT ![p] = "gen_provider"]
                                /\ UNCHANGED res
                   ELSE \E i \in mostRecentOf(existing) :
                           IF isRecent(quizzes[i].createdAt, clock)
                           THEN /\ loc' = [loc EXCEPT
                                              ![p].quiz = reusedFrontendQuiz(
                                                  includedQuestions(quizzes[i], k)),
                                              ![p].path = "store",
                                              ![p].storedQuiz = quizzes[i],
                                              ![p].storeRead = TRUE,
                                              ![p].now = clock]
                                /\ pc' = [pc EXCEPT ![p] = "gen_reuse_cache_set"]
                                /\ UNCHANGED res
                           ELSE /\ loc' = [loc EXCEPT ![p].storedQuiz = quizzes[i],
                                                      ![p].storeRead = TRUE,
                                                      ![p].now = clock]
                                /\ IF req[p].model \notin availableModels
                                   THEN GenerateFails(p,
                                            "Failed to generate quiz: Invalid model")
                                   ELSE /\ pc' = [pc EXCEPT ![p] = "gen_provider"]
                                        /\ UNCHANGED res
    /\ UNCHANGED <<clock, storeVars, cache, req, harnessVars>>

GenFindMany(p) == GenFindManyWith(p, ScanStarts)

\* mutant: the reused quiz is returned without being written to the cache
GenReuseWithoutCacheSet(p) ==
    /\ pc[p] = "gen_reuse_cache_set"
    /\ GenerateReturns(p, loc[p].quiz)
    /\ UNCHANGED <<clock, storeVars, cache, req, loc, harnessVars>>

\* generateQuiz, store-reuse path: await redisService.setQuizCache(...); return
GenReuseCacheSet(p) ==
    /\ pc[p] = "gen_reuse_cache_set"
    /\ \E redisUp \in BOOLEAN :
          IF redisUp
          THEN /\ cache' = setQuizCache(loc[p].cacheKey,
                                        JSONstringifyQuiz(loc[p].quiz), CacheTTL)
               /\ GenerateReturns(p, loc[p].quiz)
               /\ UNCHANGED loc
          ELSE /\ loc' = [loc EXCEPT ![p].cacheWriteFailed = TRUE]
               /\ GenerateFails(p, "Failed to generate quiz: redis error")
               /\ UNCHANGED cache
    /\ UNCHANGED <<clock, storeVars, req, harnessVars>>

\* mutant: a provider call that throws is repeated once before the call fails
GenProviderWithRetry(p, outcomes) ==
    /\ pc[p] = "gen_provider"
    /\ loc' = [loc EXCEPT ![p].providerOutcome = "throw",
                          ![p].providerCalls = @ + 1]
    /\ IF loc[p].providerCalls >= 1
       THEN GenerateFails(p, "Failed to generate quiz: provider error")
       ELSE UNCHANGED <<pc, res>>
    /\ UNCHANGED <<clock, storeVars, cache, req, harnessVars>>

\* generateQuiz: generateWithOpenAI / generateWithAnthropic, the empty-response
\* check and parseAIResponse
GenProviderWith(p, outcomes) ==
    /\ pc[p] = "gen_provider"
    /\ \E out \in outcomes :
          LET parsed == parseAIResponse(out.text)
          IN  IF out.kind = "nokey"
              THEN /\ GenerateFails(p, "Failed to generate quiz: API key not configured")
                   /\ loc' = [loc EXCEPT ![p].providerOutcome = out.kind]
              ELSE IF out.kind = "throw"
              THEN /\ GenerateFails(p, "Failed to generate quiz: provider error")
                   /\ loc' = [loc EXCEPT ![p].providerOutcome = out.kind,
                                         ![p].providerCalls = @ + 1]
              ELSE IF out.kind = "empty"
              THEN /\ GenerateFails(p, "Failed to generate quiz: No response from AI service")
                   /\ loc' = [loc EXCEPT ![p].providerOutcome = out.kind,
                                         ![p].providerCalls = @ + 1]
              ELSE IF parsed.threw
              THEN /\ GenerateFails(p,
                        "Failed to generate quiz: Failed to parse AI response. Please try again.")
                   /\ loc' = [loc EXCEPT ![p].providerOutcome = out.kind,
                                         ![p].providerCalls = @ + 1]
              ELSE IF Len(parsed.value) = 0
              THEN /\ GenerateFails(p,
                        "Failed to generate quiz: Failed to parse AI response. Please try again with a different topic.")
                   /\ loc' = [loc EXCEPT ![p].providerOutcome = out.kind,
                                         ![p].providerCalls = @ + 1]
              ELSE /\ loc' = [loc EXCEPT ![p].questions = parsed.value,
                                         ![p].providerOutcome = out.kind,
                                         ![p].providerCalls = @ + 1]
                   /\ pc' = [pc EXCEPT ![p] = "gen_create"]
                   /\ UNCHANGED res
    /\ UNCHANGED <<clock, storeVars, cache, req, harnessVars>>

\* createQuizInDatabase: prisma.quiz.create with its nested questions
GenCreateWith(p, scans) ==
    /\ pc[p] = "gen_create"
    /\ LET row == newQuizRow(loc[p].topic, req[p].model, loc[p].questions,
                             req[p].userId, clock)
       IN  \E storeUp \in (IF Len(quizzes) < MaxQuizzes THEN BOOLEAN ELSE {FALSE}),
              k \in scans :
              IF storeUp /\ ~violatesUniqueCacheKey(row)
              THEN /\ quizzes' = Append(quizzes, row)
                   /\ loc' = [loc EXCEPT ![p].quiz = createdFrontendQuiz(
                                                         includedQuestions(row, k)),
                                         ![p].path = "generated",
                                         ![p].createOutcome = "created"]
                   /\ pc' = [pc EXCEPT ![p] = "gen_cache_set"]
                   /\ UNCHANGED res
              ELSE /\ GenerateFails(p, "Failed to generate quiz: Failed to save quiz to database")
                   /\ loc' = [loc EXCEPT ![p].createOutcome =
                                 IF storeUp THEN "unique constraint" ELSE "store down"]
                   /\ UNCHANGED quizzes
    /\ UNCHANGED <<clock, submissions, userAnswers, nextSubId, cache, req, harnessVars>>

GenCreate(p) == GenCreateWith(p, ScanStarts)

\* generateQuiz after generation: await redisService.setQuizCache(...); return
GenCacheSet(p) ==
    /\ pc[p] = "gen_cache_set"
    /\ \E redisUp \in BOOLEAN :
          IF redisUp
          THEN /\ cache' = setQuizCache(loc[p].cacheKey,
                                        JSONstringifyQuiz(loc[p].quiz), CacheTTL)
               /\ GenerateReturns(p, loc[p].quiz)
               /\ UNCHANGED loc
          ELSE /\ loc' = [loc EXCEPT ![p].cacheWriteFailed = TRUE]
               /\ GenerateFails(p, "Failed to generate quiz: redis error")
               /\ UNCHANGED cache
    /\ UNCHANGED <<clock, storeVars, req, harnessVars>>

----------------------------------------------------------------------------
(* GET /api/quiz/:id *)

QuizIdInputs == {"1", "2", "9", ""}

\* include: { questions: { orderBy: { questionOrder: 'asc' } } }
orderedByQuestionOrder(questions) ==
    [i \in 1..Len(questions) |->
        CHOOSE q \in {questions[j] : j \in 1..Len(questions)} :
            Cardinality({j \in 1..Len(questions) :
                            questions[j].questionOrder < q.questionOrder}) = i - 1]

GetQuizWith(p, ids, users) ==
    /\ pc[p] = "idle"
    /\ \E id \in ids, userId \in users, storeUp \in BOOLEAN :
          LET storedQuiz == findUniqueQuiz(parseInt(id))
          IN  /\ req' = [req EXCEPT ![p] = [NoReq EXCEPT !.op = "get", !.quizId = id,
                                                         !.userId = userId, !.at = clock,
                                                         !.token = tokenOf(userId)]]
              /\ loc' = [loc EXCEPT ![p] = NoLoc]
              /\ IF ~storeUp
                 THEN Respond(p, [NoRes EXCEPT !.status = 500,
                                               !.error = "Failed to fetch quiz"])
                 ELSE IF storedQuiz = Null
                 THEN Respond(p, [NoRes EXCEPT !.status = 404,
                                               !.error = "Quiz not found"])
                 ELSE IF storedQuiz.userId # 0 /\ storedQuiz.userId # userId
                 THEN Respond(p, [NoRes EXCEPT !.status = 403,
                          !.error = "Access denied. You can only access your own quizzes."])
                 ELSE Respond(p, [NoRes EXCEPT !.status = 200,
                          !.quiz = reviewQuiz([storedQuiz EXCEPT !.questions =
                                        orderedByQuestionOrder(@)])])
    /\ UNCHANGED <<clock, storeVars, cache, harnessVars>>

GetQuiz(p) == GetQuizWith(p, QuizIdInputs \ {""}, Users)

----------------------------------------------------------------------------
(* POST /api/quiz/submit *)

\* mutant: the percentage is truncated instead of rounded
flooredPercentage(score, totalQuestions) ==
    (100 * score) \div totalQuestions

\* Math.round((score / totalQuestions) * 100): halves round up
roundedPercentage(score, totalQuestions) ==
    (200 * score + totalQuestions) \div (2 * totalQuestions)

\* getFeedback
getFeedback(percentage) ==
    IF percentage >= 90 THEN "Excellent! You have a deep understanding of this topic."
    ELSE IF percentage >= 80 THEN "Great job! You have a solid grasp of this topic."
    ELSE IF percentage >= 70 THEN "Good work! You understand most of the key concepts."
    ELSE IF percentage >= 60
    THEN "Not bad! You have a basic understanding but room for improvement."
    ELSE IF percentage >= 50
    THEN "You're on the right track! Review the material and try again."
    ELSE "Keep studying! This topic needs more attention."

\* const results = answers.map((answer, index) => ...)
scoreResults(answers, questions) ==
    [i \in 1..Len(answers) |->
        [questionIndex |-> i - 1,
         userAnswer |-> answers[i],
         correctAnswer |-> questions[i].correctAnswer,
         isCorrect |-> answers[i] = questions[i].correctAnswer,
         explanation |-> IF questions[i].explanation = ""
                         THEN "No explanation available"
                         ELSE questions[i].explanation]]

\* correctAnswers after the map
countCorrect(results) ==
    Cardinality({i \in 1..Len(results) : results[i].isCorrect})

\* const userAnswersData = answers.map((answer, index) => ...)
userAnswersData(answers, questions, submissionId) ==
    [i \in 1..Len(answers) |->
        [submissionId |-> submissionId,
         questionId |-> questions[i].id,
         userAnswer |-> answers[i],
         isCorrect |-> answers[i] = questions[i].correctAnswer]]

\* mutant: the quiz is still accepted for one more half hour
isExpiredAfterGrace(now, expiresAt) == now > expiresAt + 1

\* mutant: a quiz bound to no user is refused as well
isForeignQuizOrUnbound(quizUserId, userId) == quizUserId # userId

\* if (storedQuiz.userId && storedQuiz.userId !== userId); 0 stands for null
isForeignQuiz(quizUserId, userId) == quizUserId # 0 /\ quizUserId # userId

\* if (new Date() > storedQuiz.expiresAt)
isExpired(now, expiresAt) == now > expiresAt

AnswerInputs ==
    {<<>>,
     <<"A", "B", "C", "D", "A">>,
     <<"B", "C", "D">>,
     <<"B", "A", "D">>}

\* POST /submit up to the first await
StartSubmitWith(p, quizIds, answerSets, users) ==
    /\ pc[p] = "idle"
    /\ \E quizId \in quizIds, answers \in answerSets,
          isArray \in BOOLEAN, userId \in users :
          /\ (~isArray => answers = <<>>)
          /\ req' = [req EXCEPT ![p] = [NoReq EXCEPT !.op = "submit", !.quizId = quizId,
                                            !.answers = answers, !.isArray = isArray,
                                            !.userId = userId, !.at = clock,
                                            !.token = tokenOf(userId)]]
          /\ loc' = [loc EXCEPT ![p] = [NoLoc EXCEPT !.preNextSubId = nextSubId,
                                                     !.preAnswers = Len(userAnswers)]]
          /\ IF quizId = "" \/ ~isArray
             THEN Respond(p, [NoRes EXCEPT !.status = 400,
                                 !.error = "Quiz ID and answers array are required"])
             ELSE /\ pc' = [pc EXCEPT ![p] = "sub_find"]
                  /\ res' = [res EXCEPT ![p] = NoRes]
    /\ UNCHANGED <<clock, storeVars, cache, harnessVars>>

StartSubmit(p) == StartSubmitWith(p, QuizIdInputs, AnswerInputs, Users)

\* await prisma.quiz.findUnique(...), the state checks and the scoring
SubFind(p) ==
    /\ pc[p] = "sub_find"
    /\ \E storeUp \in BOOLEAN :
          LET found == findUniqueQuiz(parseInt(req[p].quizId))
              storedQuiz == IF found = Null THEN Null
                            ELSE [found EXCEPT !.questions = orderedByQuestionOrder(@)]
              answers == req[p].answers
          IN  IF ~storeUp
              THEN /\ Respond(p, [NoRes EXCEPT !.status = 500,
                        !.error = "Failed to process quiz submission. Please try again."])
                   /\ UNCHANGED loc
              ELSE IF storedQuiz = Null
              THEN /\ Respond(p, [NoRes EXCEPT !.status = 404, !.error = "Quiz not found"])
                   /\ UNCHANGED loc
              ELSE IF isExpired(clock, storedQuiz.expiresAt)
              THEN /\ Respond(p, [NoRes EXCEPT !.status = 400, !.error = "Quiz has expired"])
                   /\ loc' = [loc EXCEPT ![p].storedQuiz = storedQuiz,
                                             ![p].now = clock]
              ELSE IF isForeignQuiz(storedQuiz.userId, req[p].userId)
              THEN /\ Respond(p, [NoRes EXCEPT !.status = 403,
                        !.error = "Access denied. You can only submit your own quizzes."])
                   /\ loc' = [loc EXCEPT ![p].storedQuiz = storedQuiz,
                                             ![p].now = clock]
              ELSE IF Len(answers) > Len(storedQuiz.questions)
              THEN \* question is undefined: TypeError, caught by the outer catch
                   /\ Respond(p, [NoRes EXCEPT !.status = 500,
                        !.error = "Failed to process quiz submission. Please try again."])
                   /\ loc' = [loc EXCEPT ![p].storedQuiz = storedQuiz,
                                             ![p].now = clock]
              ELSE LET results == scoreResults(answers, storedQuiz.questions)
                       score == countCorrect(results)
                       totalQuestions == Len(storedQuiz.questions)
                   IN  /\ loc' = [loc EXCEPT ![p].storedQuiz = storedQuiz,
                                             ![p].now = clock,
                                             ![p].results = results,
                                             ![p].score = score,
                                             ![p].totalQuestions = totalQuestions,
                                             ![p].percentage =
                                                 roundedPercentage(score, totalQuestions)]
                       /\ pc' = [pc EXCEPT ![p] = "sub_create"]
                       /\ UNCHANGED res
    /\ UNCHANGED <<clock, storeVars, cache, req, harnessVars>>

\* await prisma.quizSubmission.create(...)
SubCreate(p) ==
    /\ pc[p] = "sub_create"
    /\ \E storeUp \in (IF nextSubId <= MaxSubmissions THEN BOOLEAN ELSE {FALSE}) :
          IF storeUp
          THEN /\ submissions' = submissions \cup
                     {[id |-> nextSubId,
                       quizId |-> parseInt(req[p].quizId),
                       userId |-> req[p].userId,
                       score |-> loc[p].score,
                       totalQuestions |-> loc[p].totalQuestions,
                       percentage |-> loc[p].percentage]}
               /\ nextSubId' = nextSubId + 1
               /\ loc' = [loc EXCEPT ![p].subId = nextSubId]
               /\ pc' = [pc EXCEPT ![p] = "sub_answers"]
               /\ UNCHANGED res
          ELSE /\ Respond(p, [NoRes EXCEPT !.status = 500,
                    !.error = "Failed to process quiz submission. Please try again."])
               /\ UNCHANGED <<submissions, nextSubId, loc>>
    /\ UNCHANGED <<clock, quizzes, userAnswers, cache, req, harnessVars>>

\* await prisma.userAnswer.createMany(...); on success the 200 response
SubAnswers(p) ==
    /\ pc[p] = "sub_answers"
    /\ \E storeUp \in BOOLEAN :
          IF storeUp
          THEN /\ userAnswers' = userAnswers \o
                     userAnswersData(req[p].answers, loc[p].storedQuiz.questions,
                                     loc[p].subId)
               /\ Respond(p, [NoRes EXCEPT !.status = 200, !.result =
                     [quizId |-> req[p].quizId,
                      score |-> loc[p].score,
                      totalQuestions |-> loc[p].totalQuestions,
                      percentage |-> loc[p].percentage,
                      results |-> loc[p].results,
                      feedback |-> getFeedback(loc[p].percentage)]])
               /\ UNCHANGED loc
          ELSE /\ loc' = [loc EXCEPT ![p].answersFailed = TRUE]
               /\ pc' = [pc EXCEPT ![p] = "sub_cleanup"]
               /\ UNCHANGED <<userAnswers, res>>
    /\ UNCHANGED <<clock, quizzes, submissions, nextSubId, cache, req, harnessVars>>

\* the catch block: await prisma.quizSubmission.delete(...), then the 500 response
SubCleanup(p) ==
    /\ pc[p] = "sub_cleanup"
    /\ \E storeUp \in BOOLEAN :
          /\ IF storeUp
             THEN /\ submissions' = {s \in submissions : s.id # loc[p].subId}
                  /\ userAnswers' = SelectSeq(userAnswers,
                                        LAMBDA a : a.submissionId # loc[p].subId)
                  /\ UNCHANGED loc
             ELSE /\ loc' = [loc EXCEPT ![p].cleanupFailed = TRUE]
                  /\ UNCHANGED <<submissions, userAnswers>>
          /\ Respond(p, [NoRes EXCEPT !.status = 500,
                !.error = "Failed to process quiz submission. Please try again."])
    /\ UNCHANGED <<clock, quizzes, nextSubId, cache, req, harnessVars>>

----------------------------------------------------------------------------
(* GET /api/quiz/models, /submissions/history and /submissions/:id *)

GetModelsWith(p, users) ==
    /\ pc[p] = "idle"
    /\ \E userId \in users :
          /\ req' = [req EXCEPT ![p] = [NoReq EXCEPT !.op = "models",
                                            !.userId = userId, !.at = clock,
                                            !.token = tokenOf(userId)]]
          /\ loc' = [loc EXCEPT ![p] = NoLoc]
          /\ Respond(p, [NoRes EXCEPT !.status = 200,
                                      !.result = [models |-> availableModels]])
    /\ UNCHANGED <<clock, storeVars, cache, harnessVars>>

\* findMany({ where: { userId }, orderBy: { submittedAt: 'desc' } }) and the
\* formatting; the serial id follows the submission time
formattedSubmissions(userId) ==
    LET mine == {sub \in submissions : sub.userId = userId}
    IN  [i \in 1..Cardinality(mine) |->
            LET sub == CHOOSE x \in mine :
                          Cardinality({y \in mine : y.id > x.id}) = i - 1
            IN  [id |-> sub.id,
                 quizId |-> sub.quizId,
                 topic |-> quizzes[sub.quizId].topic,
                 score |-> sub.score,
                 totalQuestions |-> sub.totalQuestions,
                 percentage |-> sub.percentage]]

GetHistoryWith(p, users) ==
    /\ pc[p] = "idle"
    /\ \E userId \in users, storeUp \in BOOLEAN :
          /\ req' = [req EXCEPT ![p] = [NoReq EXCEPT !.op = "history",
                                            !.userId = userId, !.at = clock,
                                            !.token = tokenOf(userId)]]
          /\ loc' = [loc EXCEPT ![p] = NoLoc]
          /\ IF ~storeUp
             THEN Respond(p, [NoRes EXCEPT !.status = 500,
                                 !.error = "Failed to fetch quiz submission history"])
             ELSE Respond(p, [NoRes EXCEPT !.status = 200,
                     !.result = [submissions |-> formattedSubmissions(userId)]])
    /\ UNCHANGED <<clock, storeVars, cache, harnessVars>>

\* the userAnswers of a submission, ordered by the questionOrder of their
\* question, as the detail view shows them
formattedUserAnswers(sub) ==
    LET rows == {i \in 1..Len(userAnswers) : userAnswers[i].submissionId = sub.id}
        qs == quizzes[sub.quizId].questions
        questionOf(i) == CHOOSE j \in 1..Len(qs) : qs[j].id = userAnswers[i].questionId
    IN  [n \in 1..Cardinality(rows) |->
            LET i == CHOOSE x \in rows :
                        Cardinality({y \in rows :
                            qs[questionOf(y)].questionOrder
                                < qs[questionOf(x)].questionOrder}) = n - 1
            IN  [questionText |-> qs[questionOf(i)].questionText,
                 userAnswer |-> userAnswers[i].userAnswer,
                 correctAnswer |-> "Hidden for security",
                 isCorrect |-> userAnswers[i].isCorrect,
                 explanation |-> IF qs[questionOf(i)].explanation = ""
                                 THEN "No explanation available"
                                 ELSE qs[questionOf(i)].explanation]]

SubmissionIdInputs == {"1", "9"}

GetSubmissionWith(p, ids, users) ==
    /\ pc[p] = "idle"
    /\ \E id \in ids, userId \in users, storeUp \in BOOLEAN :
          LET found == {sub \in submissions : sub.id = parseInt(id)}
          IN  /\ req' = [req EXCEPT ![p] = [NoReq EXCEPT !.op = "detail",
                                                !.quizId = id,
                                                !.userId = userId, !.at = clock,
                                                !.token = tokenOf(userId)]]
              /\ loc' = [loc EXCEPT ![p] = NoLoc]
              /\ IF ~storeUp
                 THEN Respond(p, [NoRes EXCEPT !.status = 500,
                                     !.error = "Failed to fetch submission details"])
                 ELSE IF found = {}
                 THEN Respond(p, [NoRes EXCEPT !.status = 404,
                                     !.error = "Submission not found"])
                 ELSE LET sub == CHOOSE x \in found : TRUE
                      IN  IF sub.userId # userId
                          THEN Respond(p, [NoRes EXCEPT !.status = 403,
                                  !.error = "Access denied. You can only view your own submissions."])
                          ELSE Respond(p, [NoRes EXCEPT !.status = 200,
                                  !.result = [submission |->
                                             [id |-> sub.id,
                                              quizId |-> sub.quizId,
                                              topic |-> quizzes[sub.quizId].topic,
                                              score |-> sub.score,
                                              totalQuestions |-> sub.totalQuestions,
                                              percentage |-> sub.percentage,
                                              userAnswers |-> formattedUserAnswers(sub)]]])
    /\ UNCHANGED <<clock, storeVars, cache, harnessVars>>

----------------------------------------------------------------------------
(* middleware authenticateToken in front of every quiz route *)

\* user 3 has been deleted since the token was issued
Tokens ==
    {NoToken,
     [kind |-> "malformed", userId |-> 0],
     [kind |-> "expired", userId |-> 1],
     tokenOf(1), tokenOf(2), tokenOf(3)}

\* mutant: a request without a token is let through, as optionalAuth does
authenticateTokenOptional(token, storeUp) ==
    IF token.kind = "none" THEN [status |-> 0, error |-> ""]
    ELSE IF token.kind = "expired" THEN [status |-> 401, error |-> "Token expired"]
    ELSE IF token.kind = "malformed" THEN [status |-> 401, error |-> "Invalid token"]
    ELSE IF ~storeUp THEN [status |-> 500, error |-> "Token verification failed"]
    ELSE IF token.userId \notin Users THEN [status |-> 401, error |-> "User not found"]
    ELSE [status |-> 0, error |-> ""]

\* authenticateToken: the response it sends, or status 0 when it calls next()
authenticateToken(token, storeUp) ==
    IF token.kind = "none" THEN [status |-> 401, error |-> "Access token required"]
    ELSE IF token.kind = "expired" THEN [status |-> 401, error |-> "Token expired"]
    ELSE IF token.kind = "malformed" THEN [status |-> 401, error |-> "Invalid token"]
    ELSE IF ~storeUp THEN [status |-> 500, error |-> "Token verification failed"]
    ELSE IF token.userId \notin Users THEN [status |-> 401, error |-> "User not found"]
    ELSE [status |-> 0, error |-> ""]

\* the middleware has answered: the handler of the route does not run
Refused(p, request, answer) ==
    /\ pc[p] = "idle"
    /\ req' = [req EXCEPT ![p] = [request EXCEPT !.at = clock]]
    /\ loc' = [loc EXCEPT ![p] = NoLoc]
    /\ Respond(p, [NoRes EXCEPT !.status = answer.status, !.error = answer.error])
    /\ UNCHANGED <<clock, storeVars, cache, harnessVars>>

\* the request bodies and parameters of the routed requests
RoutedTopics == {TopicSpace, TopicBlank, <<>>}
RoutedModels == {GPT35, NotAString}
RoutedQuizIds == {"1", ""}
RoutedAnswers == {<<>>, <<"B", "C", "D">>}

GenerateRoute(p) ==
    \E token \in Tokens, storeUp \in BOOLEAN :
        LET answer == authenticateToken(token, storeUp)
        IN  IF answer.status # 0
            THEN \E topic \in RoutedTopics, model \in RoutedModels :
                    Refused(p, [NoReq EXCEPT !.op = "generate", !.topic = topic,
                                             !.model = model, !.token = token], answer)
            ELSE StartGenerateWith(p, RoutedTopics, RoutedModels, {FALSE},
                                   {token.userId})

SubmitRoute(p) ==
    \E token \in Tokens, storeUp \in BOOLEAN :
        LET answer == authenticateToken(token, storeUp)
        IN  IF answer.status # 0
            THEN \E quizId \in RoutedQuizIds, answers \in RoutedAnswers,
                    isArray \in BOOLEAN :
                    /\ ~isArray => answers = <<>>
                    /\ Refused(p, [NoReq EXCEPT !.op = "submit", !.quizId = quizId,
                                                !.answers = answers,
                                                !.isArray = isArray,
                                                !.token = token], answer)
            ELSE StartSubmitWith(p, RoutedQuizIds, RoutedAnswers, {token.userId})

GetQuizRoute(p) ==
    \E token \in Tokens, storeUp \in BOOLEAN :
        LET answer == authenticateToken(token, storeUp)
        IN  IF answer.status # 0
            THEN \E id \in RoutedQuizIds \ {""} :
                    Refused(p, [NoReq EXCEPT !.op = "get", !.quizId = id,
                                             !.token = token], answer)
            ELSE GetQuizWith(p, RoutedQuizIds \ {""}, {token.userId})

ModelsRoute(p) ==
    \E token \in Tokens, storeUp \in BOOLEAN :
        LET answer == authenticateToken(token, storeUp)
        IN  IF answer.status # 0
            THEN Refused(p, [NoReq EXCEPT !.op = "models", !.token = token], answer)
            ELSE GetModelsWith(p, {token.userId})

HistoryRoute(p) ==
    \E token \in Tokens, storeUp \in BOOLEAN :
        LET answer == authenticateToken(token, storeUp)
        IN  IF answer.status # 0
            THEN Refused(p, [NoReq EXCEPT !.op = "history", !.token = token], answer)
            ELSE GetHistoryWith(p, {token.userId})

SubmissionRoute(p) ==
    \E token \in Tokens, storeUp \in BOOLEAN :
        LET answer == authenticateToken(token, storeUp)
        IN  IF answer.status # 0
            THEN \E id \in SubmissionIdInputs :
                    Refused(p, [NoReq EXCEPT !.op = "detail", !.quizId = id,
                                             !.token = token], answer)
            ELSE GetSubmissionWith(p, SubmissionIdInputs, {token.userId})

----------------------------------------------------------------------------
(* Specifications *)

\* one request at a time
SeqWorkers == {"w1"}

\* Spec: generation, reuse and review; every quiz is generated for user 1
StartGenerate(p) == StartGenerateWith(p, TopicInputs, ModelInputs, BOOLEAN, {1})

GenProvider(p) == GenProviderWith(p, ProviderOutcomes)

Next ==
    \/ Tick /\ UNCHANGED served
    \/ \E p \in SeqWorkers : StartGenerate(p) /\ UNCHANGED served
    \/ \E p \in SeqWorkers : GenCacheGet(p) /\ UNCHANGED served
    \/ \E p \in SeqWorkers : GenFindMany(p) /\ UNCHANGED served
    \/ \E p \in SeqWorkers : GenReuseCacheSet(p) /\ UNCHANGED served
    \/ \E p \in SeqWorkers : GenProvider(p) /\ UNCHANGED served
    \/ \E p \in SeqWorkers : GenCreate(p) /\ UNCHANGED served
    \/ \E p \in SeqWorkers : GenCacheSet(p) /\ UNCHANGED served
    \/ \E p \in SeqWorkers : GetQuiz(p) /\ UNCHANGED served
    \/ \E p \in SeqWorkers : Return(p) /\ UNCHANGED served

Spec == Init /\ [][Next]_vars

\* SpecReuse: repeated generation requests for two topics, with the history
\* of the quizzes served without forceNew
StartGenerateReuse(p) ==
    StartGenerateWith(p, {TopicSpace, TopicUnderscore}, {GPT35}, BOOLEAN, {1})

GenProviderReuse(p) ==
    GenProviderWith(p, {[kind |-> "throw", text |-> <<>>],
                        [kind |-> "text", text |-> TextFive]})

\* the history variable: what the last successful call without forceNew
\* returned for each (topic, model); any forceNew call clears it
TrackServed ==
    served' =
        IF \E p \in Workers : pc[p] = "idle" /\ req'[p].op = "generate" /\ req'[p].forceNew
        THEN {}
        ELSE IF \E p \in Workers : /\ pc[p] # "done" /\ pc'[p] = "done"
                                   /\ req'[p].op = "generate" /\ res'[p].status = 200
        THEN LET p == CHOOSE q \in Workers : /\ pc[q] # "done" /\ pc'[q] = "done"
                                             /\ req'[q].op = "generate"
                                             /\ res'[q].status = 200
             IN  {e \in served : ~(e.topic = loc'[p].topic /\ e.model = req'[p].model)}
                 \cup {[topic |-> loc'[p].topic, model |-> req'[p].model,
                        id |-> res'[p].quiz.id, at |-> req'[p].at]}
        ELSE {e \in served : clock' - e.at < ReuseWindow}

NextReuse ==
    \/ Tick /\ TrackServed
    \/ \E p \in SeqWorkers : StartGenerateReuse(p) /\ TrackServed
    \/ \E p \in SeqWorkers : GenCacheGet(p) /\ TrackServed
    \/ \E p \in SeqWorkers : GenFindMany(p) /\ TrackServed
    \/ \E p \in SeqWorkers : GenReuseCacheSet(p) /\ TrackServed
    \/ \E p \in SeqWorkers : GenProviderReuse(p) /\ TrackServed
    \/ \E p \in SeqWorkers : GenCreate(p) /\ TrackServed
    \/ \E p \in SeqWorkers : GenCacheSet(p) /\ TrackServed
    \/ \E p \in SeqWorkers : Return(p) /\ TrackServed

SpecReuse == Init /\ [][NextReuse]_vars

\* SpecSubmit: quizzes of one topic are generated for either user and submitted
StartGenerateForSubmit(p) ==
    StartGenerateWith(p, {TopicSpace}, {GPT35}, {TRUE}, Users)

GenProviderForSubmit(p) ==
    GenProviderWith(p, {[kind |-> "text", text |-> TextFive],
                        [kind |-> "text", text |-> TextThree]})

NextSubmit ==
    \/ Tick /\ UNCHANGED served
    \/ \E p \in SeqWorkers : StartGenerateForSubmit(p) /\ UNCHANGED served
    \/ \E p \in SeqWorkers : GenProviderForSubmit(p) /\ UNCHANGED served
    \/ \E p \in SeqWorkers : GenCreate(p) /\ UNCHANGED served
    \/ \E p \in SeqWorkers : GenCacheSet(p) /\ UNCHANGED served
    \/ \E p \in SeqWorkers : StartSubmit(p) /\ UNCHANGED served
    \/ \E p \in SeqWorkers : SubFind(p) /\ UNCHANGED served
    \/ \E p \in SeqWorkers : SubCreate(p) /\ UNCHANGED served
    \/ \E p \in SeqWorkers : SubAnswers(p) /\ UNCHANGED served
    \/ \E p \in SeqWorkers : SubCleanup(p) /\ UNCHANGED served
    \/ \E p \in SeqWorkers : Return(p) /\ UNCHANGED served

SpecSubmit == Init /\ [][NextSubmit]_vars

\* SpecOwner: submissions against a store that also holds a quiz bound to no
\* user: its owner has been deleted (quizzes.user_id is ON DELETE SET NULL)
TopicOrphan == <<"c">>

OrphanQuiz ==
    LET questions == parseAIResponse(TextThree).value
    IN  [id |-> 1,
         topic |-> TopicOrphan,
         model |-> GPT35,
         userId |-> 0,
         createdAt |-> 0,
         expiresAt |-> QuizLifetime,
         isAiGenerated |-> TRUE,
         cacheKey |-> cacheKeyOf(TopicOrphan, GPT35),
         questions |-> [i \in 1..Len(questions) |->
                           [id |-> i,
                            quizId |-> 1,
                            questionText |-> questions[i].question,
                            options |-> questions[i].options,
                            correctAnswer |-> questions[i].correctAnswer,
                            explanation |-> questions[i].explanation,
                            questionOrder |-> i]]]

InitOwner ==
    /\ clock = 0
    /\ quizzes = <<OrphanQuiz>>
    /\ submissions = {}
    /\ userAnswers = <<>>
    /\ nextSubId = 1
    /\ cache = {}
    /\ pc = [p \in Workers |-> "idle"]
    /\ req = [p \in Workers |-> NoReq]
    /\ loc = [p \in Workers |-> NoLoc]
    /\ res = [p \in Workers |-> NoRes]
    /\ served = {}
    /\ rawText = <<>>
    /\ parseOut = Null

GenProviderForOwner(p) ==
    GenProviderWith(p, {[kind |-> "text", text |-> TextThree]})

StartSubmitForOwner(p) ==
    StartSubmitWith(p, {"1", "2"}, {<<"B", "C", "D">>, <<"B", "A", "D">>}, Users)

NextOwner ==
    \/ Tick /\ UNCHANGED served
    \/ \E p \in SeqWorkers : StartGenerateForSubmit(p) /\ UNCHANGED served
    \/ \E p \in SeqWorkers : GenProviderForOwner(p) /\ UNCHANGED served
    \/ \E p \in SeqWorkers : GenCreate(p) /\ UNCHANGED served
    \/ \E p \in SeqWorkers : GenCacheSet(p) /\ UNCHANGED served
    \/ \E p \in SeqWorkers : StartSubmitForOwner(p) /\ UNCHANGED served
    \/ \E p \in SeqWorkers : SubFind(p) /\ UNCHANGED served
    \/ \E p \in SeqWorkers : SubCreate(p) /\ UNCHANGED served
    \/ \E p \in SeqWorkers : SubAnswers(p) /\ UNCHANGED served
    \/ \E p \in SeqWorkers : SubCleanup(p) /\ UNCHANGED served
    \/ \E p \in SeqWorkers : Return(p) /\ UNCHANGED served

SpecOwner == InitOwner /\ [][NextOwner]_vars

\* SpecKey: generation requests whose topics differ in letter case and in
\* surrounding whitespace only
TopicUpper == <<"A", " ", "b">>
TopicPadded == <<" ", "a", " ", "B", " ">>

StartGenerateKey(p) ==
    StartGenerateWith(p, {TopicSpace, TopicUpper, TopicPadded}, {GPT35}, BOOLEAN, {1})

NextKey ==
    \/ Tick /\ UNCHANGED served
    \/ \E p \in SeqWorkers : StartGenerateKey(p) /\ UNCHANGED served
    \/ \E p \in SeqWorkers : GenCacheGet(p) /\ UNCHANGED served
    \/ \E p \in SeqWorkers : GenFindMany(p) /\ UNCHANGED served
    \/ \E p \in SeqWorkers : GenReuseCacheSet(p) /\ UNCHANGED served
    \/ \E p \in SeqWorkers : GenProviderReuse(p) /\ UNCHANGED served
    \/ \E p \in SeqWorkers : GenCreate(p) /\ UNCHANGED served
    \/ \E p \in SeqWorkers : GenCacheSet(p) /\ UNCHANGED served
    \/ \E p \in SeqWorkers : Return(p) /\ UNCHANGED served

SpecKey == Init /\ [][NextKey]_vars

\* SpecConcurrent: two requests for one (topic, model) are handled at the same
\* time; their steps interleave at every await
StartGenerateConcurrent(p) ==
    StartGenerateWith(p, {TopicSpace}, {GPT35}, BOOLEAN, {1})

GenProviderConcurrent(p) ==
    GenProviderWith(p, {[kind |-> "text", text |-> TextFive]})

\* the relation reads of the concurrent callers return the insertion order
GenFindManyInOrder(p) == GenFindManyWith(p, {0})

GenCreateInOrder(p) == GenCreateWith(p, {0})

NextConcurrent ==
    \/ Tick /\ UNCHANGED served
    \/ \E p \in Workers : StartGenerateConcurrent(p) /\ UNCHANGED served
    \/ \E p \in Workers : GenCacheGet(p) /\ UNCHANGED served
    \/ \E p \in Workers : GenFindManyInOrder(p) /\ UNCHANGED served
    \/ \E p \in Workers : GenReuseCacheSet(p) /\ UNCHANGED served
    \/ \E p \in Workers : GenProviderConcurrent(p) /\ UNCHANGED served
    \/ \E p \in Workers : GenCreateInOrder(p) /\ UNCHANGED served
    \/ \E p \in Workers : GenCacheSet(p) /\ UNCHANGED served
    \/ \E p \in Workers : Return(p) /\ UNCHANGED served

SpecConcurrent == Init /\ [][NextConcurrent]_vars

\* SpecObserve: user 1 submits the stored quiz while the submission history and
\* the submission detail are read, the steps of the requests interleaved
StartSubmitObserved(p) == StartSubmitWith(p, {"1"}, {<<"B", "C", "D">>}, {1})

GetHistory(p) == GetHistoryWith(p, {1})

GetSubmission(p) == GetSubmissionWith(p, {"1"}, {1})

NextObserve ==
    \/ \E p \in Workers : StartSubmitObserved(p) /\ UNCHANGED served
    \/ \E p \in Workers : SubFind(p) /\ UNCHANGED served
    \/ \E p \in Workers : SubCreate(p) /\ UNCHANGED served
    \/ \E p \in Workers : SubAnswers(p) /\ UNCHANGED served
    \/ \E p \in Workers : SubCleanup(p) /\ UNCHANGED served
    \/ \E p \in Workers : GetHistory(p) /\ UNCHANGED served
    \/ \E p \in Workers : GetSubmission(p) /\ UNCHANGED served
    \/ \E p \in Workers : Return(p) /\ UNCHANGED served

SpecObserve == InitOwner /\ [][NextObserve]_vars

\* the awaits of generateQuiz and of POST /submit on Redis, the store and the
\* provider
AwaitPoints ==
    {"gen_cache_get", "gen_find", "gen_reuse_cache_set", "gen_provider",
     "gen_create", "gen_cache_set",
     "sub_find", "sub_create", "sub_answers", "sub_cleanup"}

\* the awaited call never responds: no timeout is set on the Redis client, on
\* the Prisma client or on the provider clients, so the handler stays
\* suspended at its await
NeverResponds(p) ==
    /\ pc[p] \in AwaitPoints
    /\ pc' = [pc EXCEPT ![p] = "waiting"]
    /\ UNCHANGED <<clock, storeVars, cache, req, loc, res, harnessVars>>

\* SpecLive: generate and submit requests for the stored quiz, one at a time;
\* the provider is down; every enabled step of a handler is eventually run by
\* the event loop
StartGenerateLive(p) == StartGenerateWith(p, {TopicOrphan}, {GPT35}, BOOLEAN, {1})

StartSubmitLive(p) == StartSubmitWith(p, {"1"}, {<<"B", "C", "D">>}, {1})

GenProviderLive(p) == GenProviderWith(p, {[kind |-> "throw", text |-> <<>>]})

NextLive ==
    \/ \E p \in SeqWorkers : StartGenerateLive(p) /\ UNCHANGED served
    \/ \E p \in SeqWorkers : GenCacheGet(p) /\ UNCHANGED served
    \/ \E p \in SeqWorkers : GenFindManyInOrder(p) /\ UNCHANGED served
    \/ \E p \in SeqWorkers : GenReuseCacheSet(p) /\ UNCHANGED served
    \/ \E p \in SeqWorkers : GenProviderLive(p) /\ UNCHANGED served
    \/ \E p \in SeqWorkers : StartSubmitLive(p) /\ UNCHANGED served
    \/ \E p \in SeqWorkers : SubFind(p) /\ UNCHANGED served
    \/ \E p \in SeqWorkers : SubCreate(p) /\ UNCHANGED served
    \/ \E p \in SeqWorkers : SubAnswers(p) /\ UNCHANGED served
    \/ \E p \in SeqWorkers : SubCleanup(p) /\ UNCHANGED served
    \/ \E p \in SeqWorkers : NeverResponds(p) /\ UNCHANGED served
    \/ \E p \in SeqWorkers : Return(p) /\ UNCHANGED served

SpecLive == InitOwner /\ [][NextLive]_vars /\ WF_vars(NextLive)

\* SpecShare: both users ask for a quiz of one topic without forceNew and
\* submit it, one request at a time, with the history of which quiz
\* generateQuiz returned to which user
StartGenerateShare(p) == StartGenerateWith(p, {TopicSpace}, {GPT35}, {FALSE}, Users)

StartSubmitShare(p) == StartSubmitWith(p, {"1"}, {<<"B", "C", "D">>}, Users)

TrackReturned ==
    served' =
        served \cup
            {[topic |-> loc'[p].topic, model |-> req'[p].model,
              id |-> res'[p].quiz.id, at |-> req'[p].at,
              userId |-> req'[p].userId] :
                p \in {q \in Workers : /\ pc[q] # "done" /\ pc'[q] = "done"
                                       /\ req'[q].op = "generate"
                                       /\ res'[q].status = 200}}

NextShare ==
    \/ \E p \in SeqWorkers : StartGenerateShare(p) /\ TrackReturned
    \/ \E p \in SeqWorkers : GenCacheGet(p) /\ TrackReturned
    \/ \E p \in SeqWorkers : GenFindManyInOrder(p) /\ TrackReturned
    \/ \E p \in SeqWorkers : GenReuseCacheSet(p) /\ TrackReturned
    \/ \E p \in SeqWorkers : GenProviderForOwner(p) /\ TrackReturned
    \/ \E p \in SeqWorkers : GenCreateInOrder(p) /\ TrackReturned
    \/ \E p \in SeqWorkers : GenCacheSet(p) /\ TrackReturned
    \/ \E p \in SeqWorkers : StartSubmitShare(p) /\ TrackReturned
    \/ \E p \in SeqWorkers : SubFind(p) /\ TrackReturned
    \/ \E p \in SeqWorkers : SubCreate(p) /\ TrackReturned
    \/ \E p \in SeqWorkers : SubAnswers(p) /\ TrackReturned
    \/ \E p \in SeqWorkers : SubCleanup(p) /\ TrackReturned
    \/ \E p \in SeqWorkers : Return(p) /\ TrackReturned

SpecShare == Init /\ [][NextShare]_vars

\* SpecRoutes: every quiz route behind its middleware, one request at a time
GenProviderRoutes(p) ==
    GenProviderWith(p, {[kind |-> "throw", text |-> <<>>],
                        [kind |-> "text", text |-> TextThree]})

NextRoutes ==
    \/ \E p \in SeqWorkers : GenerateRoute(p) /\ UNCHANGED served
    \/ \E p \in SeqWorkers : SubmitRoute(p) /\ UNCHANGED served
    \/ \E p \in SeqWorkers : GetQuizRoute(p) /\ UNCHANGED served
    \/ \E p \in SeqWorkers : ModelsRoute(p) /\ UNCHANGED served
    \/ \E p \in SeqWorkers : HistoryRoute(p) /\ UNCHANGED served
    \/ \E p \in SeqWorkers : SubmissionRoute(p) /\ UNCHANGED served
    \/ \E p \in SeqWorkers : GenCacheGet(p) /\ UNCHANGED served
    \/ \E p \in SeqWorkers : GenFindMany(p) /\ UNCHANGED served
    \/ \E p \in SeqWorkers : GenReuseCacheSet(p) /\ UNCHANGED served
    \/ \E p \in SeqWorkers : GenProviderRoutes(p) /\ UNCHANGED served
    \/ \E p \in SeqWorkers : GenCreate(p) /\ UNCHANGED served
    \/ \E p \in SeqWorkers : GenCacheSet(p) /\ UNCHANGED served
    \/ \E p \in SeqWorkers : SubFind(p) /\ UNCHANGED served
    \/ \E p \in SeqWorkers : SubCreate(p) /\ UNCHANGED served
    \/ \E p \in SeqWorkers : SubAnswers(p) /\ UNCHANGED served
    \/ \E p \in SeqWorkers : SubCleanup(p) /\ UNCHANGED served
    \/ \E p \in SeqWorkers : Return(p) /\ UNCHANGED served

SpecRoutes == Init /\ [][NextRoutes]_vars

\* SpecParse: parseAIResponse applied to raw texts put together from pieces
\* of provider output

\* a complete block without an explanation line: six lines
FragSix ==
    <<Marker, Txt("q6"), Opt("A", "a6"), Opt("B", "b6"), Opt("C", "c6"),
      Opt("D", "d6"), Cor("B")>>

\* four options and a label, but no question line: five lines
FragShort ==
    <<Marker, Opt("A", "a5"), Opt("B", "b5"), Opt("C", "c5"), Opt("D", "d5"),
      Cor("C")>>

\* a line of free text; after another fragment it is one more line of its block
FragNoise == <<Txt("noise")>>

CoreFragments ==
    {GoodBlock("q1", "A"), FragSix, FragShort, FragNoise, BrokenBlock("q4")}

\* blocks for single conditions of the parser: a label outside A-D; a valid
\* label followed by an invalid one; an indented option line; an option
\* repeated with empty text; an option repeated with text after blank lines
\* and an indented first line
SpecialFragments ==
    {<<Marker, Txt("s1"), Opt("A", "a"), Opt("B", "b"), Opt("C", "c"),
       Opt("D", "d"), Cor("E"), Exp("because")>>,
     <<Marker, Txt("s2"), Opt("A", "a"), Opt("B", "b"), Opt("C", "c"),
       Opt("D", "d"), Cor("D"), Cor("E")>>,
     <<Marker, Txt("s3"), Opt("A", "a"), Opt("B", "b"), Opt("C", "c"),
       Indented(Opt("D", "d")), Cor("A"), Exp("because")>>,
     GoodBlock("s4", "A") \o <<Opt("A", "")>>,
     <<Marker, Blank, Indented(Txt("s5")), Opt("A", "x"), Blank, Opt("A", "a"),
       Opt("B", "b"), Opt("C", "c"), Opt("D", "d"), Cor("A")>>}

RECURSIVE Concat(_)
Concat(fragments) ==
    IF fragments = <<>> THEN <<>>
    ELSE Head(fragments) \o Concat(Tail(fragments))

ParserInputs ==
    {Concat(fs) : fs \in UNION {[1..k -> CoreFragments] : k \in 0..MaxBlocks}}
    \cup {pre \o x \o post : pre \in {<<>>, GoodBlock("q1", "A")},
                             x \in SpecialFragments,
                             post \in {<<>>, FragSix}}
    \cup ProviderTexts

InitParse ==
    /\ rawText \in ParserInputs
    /\ parseOut = Null
    /\ clock = 0
    /\ quizzes = <<>>
    /\ submissions = {}
    /\ userAnswers = <<>>
    /\ nextSubId = 1
    /\ cache = {}
    /\ pc = [p \in Workers |-> "idle"]
    /\ req = [p \in Workers |-> NoReq]
    /\ loc = [p \in Workers |-> NoLoc]
    /\ res = [p \in Workers |-> NoRes]
    /\ served = {}

Parse ==
    /\ parseOut = Null
    /\ parseOut' = parseAIResponse(rawText)
    /\ UNCHANGED <<clock, storeVars, cache, pc, req, loc, res, served, rawText>>

NextParse == Parse

SpecParse == InitParse /\ [][NextParse]_vars

----------------------------------------------------------------------------
(* Properties *)

Finished(p, op) == pc[p] = "done" /\ req[p].op = op

SanitizedQuiz(quiz) ==
    \A i \in 1..Len(quiz.questions) :
        DOMAIN quiz.questions[i] = {"id", "question", "options"}

\* C1: every quiz that generateQuiz returns (generated, reused from the store
\* or read from the cache), every value written to the cache and every quiz of
\* a POST /generate or GET /:id response has, for each question, the fields
\* id, question and options only: never correctAnswer or explanation.
C1_SanitizedEverywhere ==
    /\ \A p \in Workers : loc[p].quiz # Null => SanitizedQuiz(loc[p].quiz)
    /\ \A p \in Workers : res[p].quiz # Null => SanitizedQuiz(res[p].quiz)
    /\ \A e \in cache : SanitizedQuiz(JSONparse(JSONparse(e.value)))

\* a request served from the cache has returned, and the stored quiz holds
\* correct answers
C1_Witness ==
    \E p \in Workers :
        /\ Finished(p, "generate") /\ res[p].status = 200 /\ loc[p].path = "cache"
        /\ \E i \in 1..Len(quizzes) :
              /\ ToString(quizzes[i].id) = res[p].quiz.id
              /\ quizzes[i].questions[1].correctAnswer \in Labels

\* C4: a generateQuiz call with forceNew = true never reads the cache or the
\* store, and the quiz it returns was created by that call: its row did not
\* exist when the call started.
C4_ForceNewIsFresh ==
    \A p \in Workers :
        /\ (req[p].op = "generate" /\ req[p].forceNew)
              => pc[p] \notin {"gen_cache_get", "gen_find", "gen_reuse_cache_set"}
        /\ (Finished(p, "generate") /\ req[p].forceNew /\ res[p].status = 200)
              => /\ loc[p].path = "generated"
                 /\ parseInt(res[p].quiz.id) > loc[p].preLen
                 /\ parseInt(res[p].quiz.id) \in 1..Len(quizzes)
                 /\ quizzes[parseInt(res[p].quiz.id)].createdAt >= req[p].at

\* a forced call has returned a quiz although the store already held one
C4_Witness ==
    \E p \in Workers :
        /\ Finished(p, "generate") /\ req[p].forceNew /\ res[p].status = 200
        /\ loc[p].preLen >= 1

\* C8: every stored quiz has exactly five questions with the ordinals 1..5,
\* each used once.
C8_FiveQuestions ==
    \A i \in 1..Len(quizzes) :
        /\ Len(quizzes[i].questions) = 5
        /\ {quizzes[i].questions[j].questionOrder : j \in 1..Len(quizzes[i].questions)}
               = 1..5

\* C9: a cache failure never fails generateQuiz: after a failed cache read the
\* call goes on as on a miss, and after a failed cache write the call still
\* returns the quiz it obtained.
C9_CacheFailuresAbsorbed ==
    \A p \in Workers :
        /\ (req[p].op = "generate" /\ loc[p].cacheReadFailed)
              => loc[p].path # "cache"
        /\ (Finished(p, "generate") /\ loc[p].cacheWriteFailed)
              => /\ res[p].status = 200
                 /\ res[p].quiz = routeFrontendQuiz(loc[p].quiz)

\* C2: when userAnswer.createMany has failed after quizSubmission.create
\* succeeded, then, whatever the store does during the cleanup, the
\* QuizSubmission row of that call is gone when the failure is answered.
C2_Rollback ==
    \A p \in Workers :
        (Finished(p, "submit") /\ loc[p].answersFailed)
            => /\ res[p].status = 500
               /\ \A s \in submissions : s.id # loc[p].subId

\* C5: a POST /submit (with a quiz id and an answers array) for a stored quiz
\* whose expiresAt is earlier than the time of the request ends in the error
\* 'Quiz has expired', whoever asks and whatever the answers are; it never
\* gets to the writes and leaves no QuizSubmission and no UserAnswer row.
C5_ExpiredSubmitRejected ==
    \A p \in Workers :
        (/\ req[p].op = "submit"
         /\ loc[p].storedQuiz # Null
         /\ loc[p].storedQuiz.expiresAt < req[p].at)
            => /\ pc[p] = "done"
               /\ res[p].status = 400
               /\ res[p].error = "Quiz has expired"
               /\ res[p].result = Null
               /\ loc[p].subId = 0
               /\ nextSubId = loc[p].preNextSubId
               /\ Len(userAnswers) = loc[p].preAnswers

\* a user who does not own the quiz has submitted answers after its expiry
C5_Witness ==
    \E p \in Workers :
        /\ Finished(p, "submit")
        /\ loc[p].storedQuiz # Null
        /\ loc[p].storedQuiz.expiresAt < req[p].at
        /\ loc[p].storedQuiz.userId # req[p].userId
        /\ req[p].answers # <<>>
        /\ res[p].error = "Quiz has expired"

\* the stored correct label of the question with ordinal n of quiz quizId
storedCorrectLabel(quizId, n) ==
    LET qs == quizzes[quizId].questions
        j == CHOOSE k \in 1..Len(qs) : qs[k].questionOrder = n
    IN  qs[j].correctAnswer

storedQuestionId(quizId, n) ==
    LET qs == quizzes[quizId].questions
        j == CHOOSE k \in 1..Len(qs) : qs[k].questionOrder = n
    IN  qs[j].id

\* pct is score / n * 100 rounded to the nearest integer, halves up
IsRoundedHalfUp(pct, score, n) ==
    /\ 2 * pct * n <= 200 * score + n
    /\ 200 * score + n < 2 * (pct + 1) * n

\* C6: after a successful submit of n answers against a quiz with n questions,
\* in the returned result and in the persisted rows: flag i is true exactly
\* when answers[i] is the stored correct label of the question with ordinal i;
\* score is the number of true flags; totalQuestions is n; percentage is
\* score / n * 100 rounded, halves up.
C6_Grading ==
    \A p \in Workers :
        (/\ Finished(p, "submit") /\ res[p].status = 200
         /\ Len(req[p].answers) = Len(quizzes[parseInt(req[p].quizId)].questions))
            => LET quizId == parseInt(req[p].quizId)
                   answers == req[p].answers
                   n == Len(answers)
                   r == res[p].result
                   trueFlags == {i \in 1..n : answers[i] = storedCorrectLabel(quizId, i)}
                   rows == {i \in 1..Len(userAnswers) :
                               userAnswers[i].submissionId = loc[p].subId}
               IN  /\ Len(r.results) = n
                   /\ \A i \in 1..n : r.results[i].isCorrect <=> i \in trueFlags
                   /\ \A i \in 1..n : r.results[i].questionIndex = i - 1
                   /\ r.score = Cardinality(trueFlags)
                   /\ r.totalQuestions = n
                   /\ IsRoundedHalfUp(r.percentage, r.score, n)
                   /\ \E s \in submissions :
                         /\ s.id = loc[p].subId
                         /\ s.quizId = quizId
                         /\ s.score = r.score
                         /\ s.totalQuestions = n
                         /\ s.percentage = r.percentage
                   /\ Cardinality(rows) = n
                   /\ \A i \in 1..n : \E k \in rows :
                         /\ userAnswers[k].questionId = storedQuestionId(quizId, i)
                         /\ userAnswers[k].userAnswer = answers[i]
                         /\ userAnswers[k].isCorrect <=> i \in trueFlags

\* the example: answers A,B,C,D,A against the correct labels A,A,C,D,B
C6_Witness ==
    \E p \in Workers :
        /\ Finished(p, "submit") /\ res[p].status = 200
        /\ req[p].answers = <<"A", "B", "C", "D", "A">>
        /\ [i \in 1..5 |-> storedCorrectLabel(parseInt(req[p].quizId), i)]
              = <<"A", "A", "C", "D", "B">>
        /\ res[p].result.score = 3
        /\ res[p].result.totalQuestions = 5
        /\ res[p].result.percentage = 60
        /\ [i \in 1..5 |-> res[p].result.results[i].isCorrect]
              = <<TRUE, FALSE, TRUE, TRUE, FALSE>>

\* C10: whenever no submit is under way, every QuizSubmission row has exactly
\* one UserAnswer row per question of its quiz: as many rows as its
\* totalQuestions, never zero.
C10_OneAnswerPerQuestion ==
    (\A p \in Workers : pc[p] \in {"idle", "done"})
        => \A s \in submissions :
              LET rows == {i \in 1..Len(userAnswers) :
                              userAnswers[i].submissionId = s.id}
              IN  /\ Cardinality(rows) = s.totalQuestions
                  /\ Cardinality(rows) > 0
                  /\ {userAnswers[i].questionId : i \in rows}
                        = {q.id : q \in {quizzes[s.quizId].questions[j] :
                                     j \in 1..Len(quizzes[s.quizId].questions)}}

\* C3: when a generateQuiz call without forceNew returns a quiz for a
\* (topic, model) for which an earlier call without forceNew returned one less
\* than 24 hours before, with no forceNew call in between, both quizzes have
\* the same id, whether the later call was served from the cache or the store.
C3_IdempotentReuse ==
    \A p \in Workers :
        (/\ Finished(p, "generate") /\ ~req[p].forceNew /\ res[p].status = 200
         /\ loc[p].prior # NoPrior
         /\ req[p].at - loc[p].prior.at < ReuseWindow)
            => res[p].quiz.id = loc[p].prior.id

\* the positions of the "Qn:" markers of a text and the pieces between them
markerPositions(text) == {i \in 1..Len(text) : text[i].k = "Q"}

nthSmallest(S, n) == CHOOSE x \in S : Cardinality({y \in S : y < x}) = n - 1

pieceCount(text) == Cardinality(markerPositions(text)) + 1

piece(text, n) ==
    LET first == IF n = 1 THEN 1 ELSE nthSmallest(markerPositions(text), n - 1) + 1
        last == IF n = pieceCount(text) THEN Len(text)
                ELSE nthSmallest(markerPositions(text), n) - 1
    IN  SubSeq(text, first, last)

nonBlankPositions(b) == {i \in 1..Len(b) : b[i].k # "blank"}

\* line i of piece b is read as a line of kind k: it is of that kind and does
\* not begin with whitespace, unless it is the first non-blank line
ReadAs(b, i, k) ==
    /\ b[i].k = k
    /\ ~b[i].ind \/ \A j \in nonBlankPositions(b) : i <= j

\* the text of the last of the lines at the positions S of piece b
lastText(b, S) ==
    IF S = {} THEN "" ELSE b[CHOOSE i \in S : \A j \in S : j <= i].v

\* the text of the last line read as option l, as a valid label, as explanation
optionText(b, l) ==
    lastText(b, {i \in 1..Len(b) : ReadAs(b, i, "opt") /\ b[i].l = l})

labelText(b) ==
    lastText(b, {i \in 1..Len(b) : ReadAs(b, i, "cor") /\ b[i].v \in Labels})

explanationText(b) ==
    lastText(b, {i \in 1..Len(b) : ReadAs(b, i, "exp")})

\* complete: all four options and a correct label in A-D
IsComplete(b) ==
    /\ \A l \in Labels : optionText(b, l) # ""
    /\ labelText(b) # ""

\* what the code accepts: complete, and at least six non-blank lines
IsAccepted(b) ==
    /\ IsComplete(b)
    /\ Cardinality(nonBlankPositions(b)) >= MinBlockLines

\* value lists the pieces idx of text in source order, cut to the first five
ListsPieces(value, text, idx) ==
    /\ Len(value) = Min(Cardinality(idx), MaxQuestions)
    /\ \A n \in 1..Len(value) :
          LET b == piece(text, nthSmallest(idx, n))
              top == CHOOSE i \in nonBlankPositions(b) :
                        \A j \in nonBlankPositions(b) : i <= j
          IN  /\ value[n].question = <<b[top].k, b[top].l, b[top].v>>
              /\ \A l \in Labels : value[n].options[l] = optionText(b, l)
              /\ value[n].correctAnswer = labelText(b)
              /\ value[n].explanation = explanationText(b)

C11_OwnershipCheck ==
    \A p \in Workers :
        (/\ req[p].op = "submit"
         /\ loc[p].storedQuiz # Null
         /\ ~(loc[p].now > loc[p].storedQuiz.expiresAt))
            => /\ (loc[p].storedQuiz.userId \notin {0, req[p].userId})
                     => /\ pc[p] = "done"
                        /\ res[p].status = 403
                        /\ res[p].error =
                              "Access denied. You can only submit your own quizzes."
                        /\ res[p].result = Null
                        /\ loc[p].subId = 0
                        /\ nextSubId = loc[p].preNextSubId
                        /\ Len(userAnswers) = loc[p].preAnswers
               /\ (loc[p].storedQuiz.userId \in {0, req[p].userId})
                     => /\ res[p].status # 403
                        /\ loc[p].totalQuestions = Len(loc[p].storedQuiz.questions)

\* user 2 has been refused the quiz of user 1, while a submission for the
\* quiz bound to no user is stored
C11_Witness ==
    /\ \E p \in Workers :
          /\ Finished(p, "submit") /\ res[p].status = 403
          /\ loc[p].storedQuiz.userId = 1 /\ req[p].userId = 2
    /\ \E s \in submissions : quizzes[s.quizId].userId = 0

\* the quiz held by a cache entry
cachedQuizOf(e) == JSONparse(JSONparse(e.value))

normalizedTopic(topic) == trim(toLowerCase(topic))

\* C12: topics that are equal after lowercase and trim, with the same model,
\* use one Redis key, and the key read is the key written: while the cache
\* holds an entry written for such a topic and model, a cache read that Redis
\* answers is never a miss, and every entry lies under the key that a read for
\* its quiz's topic and model computes.
C12_OneKeyPerNormalizedTopic ==
    /\ \A p \in Workers :
          (/\ req[p].op = "generate" /\ pc[p] = "gen_find"
           /\ ~loc[p].cacheReadFailed)
              => ~\E e \in cache :
                     /\ normalizedTopic(cachedQuizOf(e).topic)
                           = normalizedTopic(req[p].topic)
                     /\ cachedQuizOf(e).model = req[p].model
    /\ \A e1, e2 \in cache :
          (/\ normalizedTopic(cachedQuizOf(e1).topic)
                 = normalizedTopic(cachedQuizOf(e2).topic)
           /\ cachedQuizOf(e1).model = cachedQuizOf(e2).model)
              => e1.key = e2.key

\* a request has been served from the cache with a quiz whose topic is
\* written differently from the requested one
C12_Witness ==
    \E p \in Workers :
        /\ Finished(p, "generate") /\ res[p].status = 200
        /\ loc[p].path = "cache"
        /\ res[p].quiz.topic # trim(req[p].topic)
        /\ normalizedTopic(res[p].quiz.topic) = normalizedTopic(req[p].topic)

\* C13: a generateQuiz call with forceNew = true whose provider returned five
\* well-formed blocks and whose store and cache answered ends by persisting
\* and returning a new quiz, also when the store already holds a quiz of the
\* same (topic, model): the unique index on cache_key never refuses the create.
C13_ForceNewAlwaysCreates ==
    \A p \in Workers :
        (/\ Finished(p, "generate") /\ req[p].forceNew
         /\ Len(loc[p].questions) = 5
         /\ loc[p].createOutcome # "store down"
         /\ ~loc[p].cacheWriteFailed)
            => /\ res[p].status = 200
               /\ loc[p].createOutcome = "created"
               /\ parseInt(res[p].quiz.id) > loc[p].preLen
               /\ parseInt(res[p].quiz.id) \in 1..Len(quizzes)

\* C14: when two generateQuiz calls without forceNew for one (topic, model)
\* have both missed the cache and the store and have both received
\* well-formed provider output, and the store and the cache answer, each call
\* returns a quiz of its own: both succeed, with two distinct stored ids.
C14_BothCallersGetAQuiz ==
    \A p, q \in Workers :
        (/\ p # q
         /\ Finished(p, "generate") /\ Finished(q, "generate")
         /\ ~req[p].forceNew /\ ~req[q].forceNew
         /\ loc[p].topic = loc[q].topic /\ req[p].model = req[q].model
         /\ Len(loc[p].questions) = 5 /\ Len(loc[q].questions) = 5
         /\ loc[p].createOutcome # "store down" /\ loc[q].createOutcome # "store down"
         /\ ~loc[p].cacheWriteFailed /\ ~loc[q].cacheWriteFailed)
            => /\ res[p].status = 200 /\ res[q].status = 200
               /\ res[p].quiz.id # res[q].quiz.id
               /\ parseInt(res[p].quiz.id) \in 1..Len(quizzes)
               /\ parseInt(res[q].quiz.id) \in 1..Len(quizzes)

\* C15: when a generate request with forceNew = true has ended, successfully
\* or not, the cache entry of its key no longer holds a quiz that existed
\* before the call.
C15_ForceNewClearsCache ==
    \A p \in Workers :
        (/\ Finished(p, "generate") /\ req[p].forceNew
         /\ loc[p].cacheKey # <<>>)
            => \A e \in cache :
                  e.key = redisQuizKey(loc[p].cacheKey)
                     => parseInt(cachedQuizOf(e).id) > loc[p].preLen

\* the request of worker p fails the validation of its route
InvalidBody(p) ==
    \/ /\ req[p].op = "generate"
       /\ \/ req[p].topic = <<>>
          \/ trim(req[p].topic) = <<>>
          \/ req[p].model = <<>>
          \/ req[p].model = NotAString
    \/ /\ req[p].op = "submit"
       /\ req[p].quizId = "" \/ ~req[p].isArray

validationMessage(op, topic) ==
    IF op = "submit" THEN "Quiz ID and answers array are required"
    ELSE IF topic = <<>> \/ trim(topic) = <<>>
    THEN "Topic is required and must be a non-empty string"
    ELSE "Model must be a valid string"

\* C16: a POST /generate or POST /submit request with an invalid body is
\* answered 400 with the validation message of its route, with or without an
\* Authorization header, and no handler step behind the validation runs.
C16_ValidationFirst ==
    \A p \in Workers :
        (req[p].op \in {"generate", "submit"} /\ InvalidBody(p))
            => /\ pc[p] = "done"
               /\ res[p].status = 400
               /\ res[p].error = validationMessage(req[p].op, req[p].topic)
               /\ loc[p].path = "" /\ loc[p].storedQuiz = Null /\ loc[p].subId = 0

C18_FallbackQuiz ==
    \A p \in Workers :
        (Finished(p, "generate")
            /\ loc[p].providerOutcome \in {"nokey", "throw", "empty"})
            => /\ res[p].status = 200
               /\ res[p].quiz # Null

\* the stored quizzes for the (topic, model) of the call of worker p that
\* existed when the call began
candidatesOf(p) ==
    {i \in 1..loc[p].preLen :
        quizzes[i].topic = trim(req[p].topic) /\ quizzes[i].model = req[p].model}

\* quiz is the frontend view of the stored row, its questions in some order
IsViewOf(quiz, row) ==
    /\ quiz.id = ToString(row.id)
    /\ quiz.topic = row.topic /\ quiz.model = row.model
    /\ quiz.createdAt = Date(row.createdAt)
    /\ quiz.expiresAt = Date(row.expiresAt)
    /\ Len(quiz.questions) = Len(row.questions)
    /\ {quiz.questions[j] : j \in 1..Len(quiz.questions)}
          = {[id |-> ToString(row.questions[j].id),
              question |-> row.questions[j].questionText,
              options |-> row.questions[j].options] : j \in 1..Len(row.questions)}

newestOf(ids) ==
    {i \in ids : \A j \in ids : quizzes[j].createdAt <= quizzes[i].createdAt}

requestEntries(c, p) ==
    {e \in c : e.key = redisQuizKey(cacheKeyOf(req[p].topic, req[p].model))}

\* the step of worker p that returns a quiz served from the cache or the store
ServesStoredQuiz(p) ==
    /\ pc[p] # "done" /\ pc'[p] = "done"
    /\ req'[p].op = "generate" /\ res'[p].status = 200
    /\ loc'[p].path \in {"cache", "store"}

\* C20: when generateQuiz returns a quiz served from the cache or the store,
\* the durable store is as it was when the call began and the returning step
\* leaves it unchanged; when the quiz came from the store, the cache then holds
\* under the request's key exactly one entry, the sanitized quiz just
\* returned, expiring CacheTTL after now, the same TTL as the entry written
\* after a generation.
C20_ReuseLeavesStore ==
    [][\A p \in Workers :
         /\ ServesStoredQuiz(p)
               => /\ storeVars' = storeVars
                  /\ Len(quizzes') = loc'[p].preLen
                  /\ loc'[p].path = "store"
                        => \E e \in cache' :
                              /\ requestEntries(cache', p) = {e}
                              /\ JSONparse(JSONparse(e.value))
                                    = JSONparse(JSONstringifyQuiz(loc'[p].quiz))
                              /\ SanitizedQuiz(loc'[p].quiz)
                              /\ res'[p].quiz = routeFrontendQuiz(loc'[p].quiz)
                              /\ e.expiresAt = clock + CacheTTL
         /\ (pc[p] = "gen_cache_set" /\ pc'[p] = "done" /\ res'[p].status = 200)
               => \E e \in cache' :
                     /\ requestEntries(cache', p) = {e}
                     /\ e.expiresAt = clock + CacheTTL
      ]_vars

\* a call has returned a quiz from the store, more than the cache TTL after it
\* was created, and the cache holds it again
C20_Witness ==
    \E p \in Workers :
        /\ Finished(p, "generate") /\ res[p].status = 200
        /\ loc[p].path = "store"
        /\ loc[p].now - loc[p].storedQuiz.createdAt >= CacheTTL
        /\ req[p].at = clock
        /\ requestEntries(cache, p) # {}
        /\ Len(quizzes) = loc[p].preLen

\* C21: every quiz that a generateQuiz call without forceNew returns, from the
\* cache as well, was created less than 24 hours before the call began, and so
\* has not passed its expiration (creation + 24 hours) when it is returned.
C21_ReturnedWithinWindow ==
    \A p \in Workers :
        (Finished(p, "generate") /\ ~req[p].forceNew /\ res[p].status = 200)
            => LET row == quizzes[parseInt(res[p].quiz.id)]
               IN  /\ req[p].at - row.createdAt < ReuseWindow
                   /\ row.expiresAt = row.createdAt + QuizLifetime
                   /\ req[p].at <= row.expiresAt

\* C22: the questions of every stored quiz carry the ordinals 1..n, and in
\* every quiz that generateQuiz returns (after generation, from the store or
\* from the cache) the question at position i is the stored question with
\* ordinal i, the one whose correct label submit compares with answers[i].
C22_OrderPreserved ==
    /\ \A q \in 1..Len(quizzes) :
          {quizzes[q].questions[j].questionOrder :
              j \in 1..Len(quizzes[q].questions)} = 1..Len(quizzes[q].questions)
    /\ \A p \in Workers :
          (Finished(p, "generate") /\ res[p].status = 200)
              => LET view == res[p].quiz.questions
                     quizId == parseInt(res[p].quiz.id)
                 IN  /\ Len(view) = Len(quizzes[quizId].questions)
                     /\ \A i \in 1..Len(view) :
                           view[i].id = ToString(storedQuestionId(quizId, i))

seenSubmissions(p) ==
    IF Finished(p, "history") /\ res[p].status = 200
    THEN {res[p].result.submissions[i].id :
             i \in 1..Len(res[p].result.submissions)}
    ELSE IF Finished(p, "detail") /\ res[p].status = 200
    THEN {res[p].result.submission.id}
    ELSE {}

\* C24: no read of the submission history or of a submission's detail shows
\* the QuizSubmission row of a submit call whose UserAnswer rows are not yet
\* written, or of a submit call that has reported failure.
C24_SubmitWritesAreOneUnit ==
    \A p \in Workers, q \in Workers :
        (req[q].op = "submit" /\ loc[q].subId \in seenSubmissions(p))
            => /\ pc[q] = "done"
               /\ res[q].status = 200

\* C25: every generateQuiz call and every submit call that has begun
\* eventually ends with a result or an error, also when a call to Redis, the
\* store or the provider that it awaits never responds.
C25_EveryCallCompletes ==
    \A p \in Workers : (pc[p] \notin {"idle", "done"}) ~> (pc[p] = "done")

\* the quizzes stored when the call of worker p began whose topic equals the
\* requested one after trim and lowercase, with the requested model, created
\* less than 24 hours before the call's store probe
normalizedCandidatesOf(p) ==
    {i \in 1..loc[p].preLen :
        /\ normalizedTopic(quizzes[i].topic) = normalizedTopic(req[p].topic)
        /\ quizzes[i].model = req[p].model
        /\ loc[p].now - quizzes[i].createdAt < ReuseWindow}

\* C26: the store probe matches topics after trim and lowercase, as the cache
\* key does: a generateQuiz call without forceNew that has missed the cache
\* and read the store, while the store holds a quiz less than 24 hours old of
\* the same model whose topic differs from the requested one at most in
\* letter case and outer whitespace, takes the store path with that quiz.
C26_StoreProbeNormalized ==
    \A p \in Workers :
        (/\ req[p].op = "generate" /\ ~req[p].forceNew /\ loc[p].storeRead
         /\ normalizedCandidatesOf(p) # {})
            => /\ loc[p].path = "store"
               /\ \E i \in normalizedCandidatesOf(p) :
                     loc[p].quiz.id = ToString(quizzes[i].id)

\* C27: a submit by a user for a quiz that generateQuiz has returned to that
\* user, made before the quiz expires, is never refused by the ownership
\* check, whoever the quiz was generated for.
C27_ReturnedQuizIsSubmittable ==
    \A p \in Workers :
        (/\ Finished(p, "submit")
         /\ \E e \in served : e.userId = req[p].userId /\ e.id = req[p].quizId
         /\ loc[p].storedQuiz # Null
         /\ ~(loc[p].now > loc[p].storedQuiz.expiresAt))
            => res[p].status # 403

\* C28: a quiz returned from the cache has the requested topic, after trim
\* and lowercase, and the requested model; and cache entries whose quizzes
\* differ in normalized topic or in model lie under different Redis keys.
C28_CacheHitMatchesRequest ==
    /\ \A p \in Workers :
          (Finished(p, "generate") /\ loc[p].path = "cache" /\ res[p].status = 200)
              => /\ normalizedTopic(res[p].quiz.topic) = normalizedTopic(req[p].topic)
                 /\ res[p].quiz.model = req[p].model
    /\ \A i, j \in 1..Len(quizzes) :
          (\/ normalizedTopic(quizzes[i].topic) # normalizedTopic(quizzes[j].topic)
           \/ quizzes[i].model # quizzes[j].model)
              => redisQuizKey(cacheKeyOf(quizzes[i].topic, quizzes[i].model))
                    # redisQuizKey(cacheKeyOf(quizzes[j].topic, quizzes[j].model))

\* the stored quizzes whose cache key is stored under the Redis key k
storedUnderKey(k) ==
    {i \in 1..Len(quizzes) : redisQuizKey(quizzes[i].cacheKey) = k}

\* a parsed cache value with its ISO strings read as dates again
revivedDates(cached) ==
    [cached EXCEPT !.createdAt = Date(@.iso), !.expiresAt = Date(@.iso)]

C30_FailedCallLeavesNoTrace ==
    \A p \in Workers :
        (Finished(p, "generate") /\ res[p].status # 200)
            => /\ Len(quizzes) = loc[p].preLen
               /\ \A e \in requestEntries(cache, p) :
                     /\ e.expiresAt - CacheTTL <= req[p].at
                     /\ parseInt(cachedQuizOf(e).id) <= loc[p].preLen

====
